---- MODULE Spec2Model ----
(***************************************************************************)
(* Model of version.py (waf tool "version"): the task classes ver_base,    *)
(* subver and ver, which copy a file keeping only the lines whose version  *)
(* marker is compatible, and record the programs a file refers to.         *)
(*                                                                         *)
(* Text is modelled as sequences of one-character strings.  A Python value *)
(* is a record [type, items]: version tuples are [type |-> "tuple"], the   *)
(* value the build environment returns for an unset key is the empty list. *)
(***************************************************************************)
EXTENDS Integers, Sequences, FiniteSets, TLC

VARIABLES
    cls,        \* the task class: "ver_base", "subver" or "ver"
    marker,     \* cls.marker: the operator alternatives of the compiled regex, in order
    inputs,     \* self.inputs[0]: the lines read from the input file
    outputs,    \* self.outputs[0]: the text of the output file
    versions,   \* generator.versions: NoAttr or a dictionary program -> tuple
    env,        \* generator.env: a dictionary key -> tuple
    raw_deps,   \* generator.bld.raw_deps: a dictionary uid -> set of programs
    hasrun,     \* whether run() was called on the present inputs
    scanned,    \* per line the generator compatible() got through in that run:
                \* the match found and the lines yielded for it
    error,      \* the exception the last operation raised, or NoError
    cache_sig,  \* whether self.cache_sig is set
    digest,     \* the data fed to self.m.update by the last sig_vars()
    args,       \* the arguments of a direct call of get_version() or of an operator
    ret         \* the value that call returned, Pending before it

vars == <<cls, marker, inputs, outputs, versions, env, raw_deps, hasrun, scanned, error,
          cache_sig, digest, args, ret>>

---------------------------------------------------------------------------
(* Bounds of the model                                                     *)

MaxLines == 2
MaxComponent == 1
MaxVersionLen == 2

---------------------------------------------------------------------------
(* Characters and strings                                                  *)

DigitChars == <<"0", "1", "2", "3", "4", "5", "6", "7", "8", "9">>
LowerChars == <<"p", "q", "x", "y">>
UpperChars == <<"P", "Q", "X", "Y">>

Range(f) == {f[i] : i \in DOMAIN f}

IndexOf(seq, c) == CHOOSE i \in DOMAIN seq : seq[i] = c

IsDigit(c) == c \in Range(DigitChars)

\* \w of the regular expression: letters, digits and the underscore
IsWord(c) == c \in Range(LowerChars) \cup Range(UpperChars) \cup Range(DigitChars) \cup {"_"}

\* \s of the regular expression
IsSpace(c) == c \in {" ", "\t"}

\* one character of str.upper()
UpperChar(c) == IF c \in Range(LowerChars) THEN UpperChars[IndexOf(LowerChars, c)] ELSE c

\* str.upper()
Upper(s) == [i \in DOMAIN s |-> UpperChar(s[i])]

\* s[from..to] as a string, empty when to < from
Slice(s, from, to) == IF to < from THEN <<>> ELSE SubSeq(s, from, to)

\* whether string t occurs in s at position from
StartsAt(s, from, t) == from + Len(t) - 1 <= Len(s) /\ Slice(s, from, from + Len(t) - 1) = t

RECURSIVE IntOf(_)
\* int() of a non-empty string of decimal digits
IntOf(s) == IF Len(s) = 0 THEN 0
    ELSE 10 * IntOf(Slice(s, 1, Len(s) - 1)) + (IndexOf(DigitChars, s[Len(s)]) - 1)

RECURSIVE StrOf(_)
\* str() of a non-negative integer
StrOf(n) == IF n < 10 THEN <<DigitChars[n + 1]>>
    ELSE StrOf(n \div 10) \o <<DigitChars[(n % 10) + 1]>>

RECURSIVE Split(_, _)
\* str.split(sep): the pieces between the occurrences of the character sep
Split(s, sep) == IF \A i \in DOMAIN s : s[i] # sep THEN <<s>>
    ELSE LET k == CHOOSE i \in DOMAIN s : s[i] = sep /\ \A j \in 1..(i - 1) : s[j] # sep
         IN <<Slice(s, 1, k - 1)>> \o Split(Slice(s, k + 1, Len(s)), sep)

RECURSIVE Join(_, _)
\* sep.join(parts)
Join(sep, parts) == IF Len(parts) = 0 THEN <<>>
    ELSE IF Len(parts) = 1 THEN parts[1]
    ELSE parts[1] \o sep \o Join(sep, Tail(parts))

---------------------------------------------------------------------------
(* Python values and exceptions                                            *)

Tuple(items) == [type |-> "tuple", items |-> items]
List(items) == [type |-> "list", items |-> items]
Bool(b) == [type |-> "bool", items |-> IF b THEN <<1>> ELSE <<>>]
IsTrue(v) == Len(v.items) > 0

NoError == [type |-> "None", arg |-> <<>>]
Raise(type, arg) == [type |-> type, arg |-> arg]

\* a call that returned value, or raised exc (then value is None)
Returned(value) == [value |-> value, exc |-> NoError]
Raised(type, arg) == [value |-> List(<<>>), exc |-> Raise(type, arg)]

---------------------------------------------------------------------------
(* The operators of the task classes                                       *)

Sym(fn) == CASE fn = "lt" -> <<"<">>
             [] fn = "le" -> <<"<", "=">>
             [] fn = "gt" -> <<">">>
             [] fn = "ge" -> <<">", "=">>
             [] fn = "eq" -> <<"=", "=">>
             [] fn = "ne" -> <<"!", "=">>

\* ver_base.operators, in the order of the dictionary
BaseOperators == [i \in 1..6 |->
    [sym |-> Sym(<<"lt", "le", "gt", "ge", "eq", "ne">>[i]),
     fn |-> <<"lt", "le", "gt", "ge", "eq", "ne">>[i],
     fuzzy |-> FALSE]]

\* subver.operators: every function wrapped by fuzzy()
SubverOperators == [i \in 1..6 |-> [BaseOperators[i] EXCEPT !.fuzzy = TRUE]]

\* ver.operators: the base operators, then each one suffixed by "?" and wrapped by fuzzy()
VerOperators == BaseOperators \o
    [i \in 1..6 |-> [sym |-> BaseOperators[i].sym \o <<"?">>,
                     fn |-> BaseOperators[i].fn,
                     fuzzy |-> TRUE]]

Operators(c) == CASE c = "ver_base" -> BaseOperators
                  [] c = "subver" -> SubverOperators
                  [] c = "ver" -> VerOperators

\* the operator alternatives of the regular expression compose_match compiles
MarkerOf(c) == [i \in DOMAIN Operators(c) |-> Operators(c)[i].sym]

\* self.operators[symbol]
OperatorAt(c, sym) == Operators(c)[CHOOSE i \in DOMAIN Operators(c) : Operators(c)[i].sym = sym]

---------------------------------------------------------------------------
(* Comparison of versions                                                  *)

\* operator.lt .. operator.ne on two integers
IntCompare(fn, a, b) == CASE fn = "lt" -> a < b
                          [] fn = "le" -> a <= b
                          [] fn = "gt" -> a > b
                          [] fn = "ge" -> a >= b
                          [] fn = "eq" -> a = b
                          [] fn = "ne" -> a # b

\* the rich comparison of two sequences of the same type: the first index at
\* which they differ decides; without one, the lengths are compared
SeqCompare(fn, v, w) ==
    LET n == IF Len(v) < Len(w) THEN Len(v) ELSE Len(w)
        diff == {i \in 1..n : v[i] # w[i]}
    IN  IF diff = {} THEN IntCompare(fn, Len(v), Len(w))
        ELSE LET i == CHOOSE k \in diff : \A j \in diff : k <= j
             IN  CASE fn = "eq" -> FALSE
                   [] fn = "ne" -> TRUE
                   [] OTHER -> IntCompare(fn, v[i], w[i])

\* operator.lt .. operator.ne on two Python values: a list and a tuple are
\* never equal and cannot be ordered
PyCompare(fn, a, b) ==
    IF a.type = b.type THEN Returned(Bool(SeqCompare(fn, a.items, b.items)))
    ELSE CASE fn = "eq" -> Returned(Bool(FALSE))
           [] fn = "ne" -> Returned(Bool(TRUE))
           [] OTHER -> Raised("TypeError", <<>>)

\* itemgetter(slice(n)): the first n items, the type kept
Truncate(a, n) == [a EXCEPT !.items = Slice(a.items, 1, IF n < Len(a.items) THEN n ELSE Len(a.items))]

\* fuzzy() without the slices: the arguments are compared as they are
fuzzy_uncut(fn, a, b) == PyCompare(fn, a, b)

\* fuzzy(cmp)(a, b)
fuzzy(fn, a, b) ==
    LET n == IF Len(a.items) < Len(b.items) THEN Len(a.items) ELSE Len(b.items)
    IN  PyCompare(fn, Truncate(a, n), Truncate(b, n))

\* self.operators[symbol](a, b)
Apply(op, a, b) == IF op.fuzzy THEN fuzzy(op.fn, a, b) ELSE PyCompare(op.fn, a, b)

\* version(str): the tuple of the integers between the dots
version(str) ==
    LET parts == Split(str, ".")
    IN  IF \E i \in DOMAIN parts : Len(parts[i]) = 0
        THEN Raised("ValueError", str)
        ELSE Returned(Tuple([i \in DOMAIN parts |-> IntOf(parts[i])]))

---------------------------------------------------------------------------
(* Resolution of a program's version                                       *)

NoAttr == [has |-> FALSE, dict |-> <<>>]
Dict(d) == [has |-> TRUE, dict |-> d]

VERSION == <<"_", "V", "E", "R", "S", "I", "O", "N">>

\* generator.env[key]: the environment returns the empty list for an unset key
EnvGet(e, key) == IF key \in DOMAIN e THEN e[key] ELSE List(<<>>)

\* get_version() asking the environment before the dictionary
get_version_env_first(vs, e, program) ==
    IF Upper(program) \o VERSION \in DOMAIN e THEN e[Upper(program) \o VERSION]
    ELSE IF vs.has /\ program \in DOMAIN vs.dict THEN vs.dict[program]
    ELSE IF vs.has /\ Upper(program) \in DOMAIN vs.dict THEN vs.dict[Upper(program)]
    ELSE List(<<>>)

\* ver_base.get_version
get_version(vs, e, program) ==
    IF vs.has /\ program \in DOMAIN vs.dict THEN vs.dict[program]
    ELSE IF vs.has /\ Upper(program) \in DOMAIN vs.dict THEN vs.dict[Upper(program)]
    ELSE EnvGet(e, Upper(program) \o VERSION)

---------------------------------------------------------------------------
(* The marker regular expression: "@", a program of \w characters, one of  *)
(* the operator alternatives, a version that is a digit followed by digits *)
(* and dots, "@", and the white space that follows.                        *)

NoMatch == [start |-> 0, end |-> 0, program |-> <<>>, operator |-> <<>>, version |-> <<>>]

\* the positions at which \w+, begun at position from, can end
WordEnds(s, from) == {e \in from..Len(s) : \A j \in from..e : IsWord(s[j])}

\* the positions at which \d[\.\d]*, begun at position from, can end
VersionEnds(s, from) ==
    {e \in from..Len(s) : IsDigit(s[from]) /\ \A j \in (from + 1)..e : IsDigit(s[j]) \/ s[j] = "."}

\* the last position \s*, begun at position from, consumes (from - 1 when none)
SpaceEnd(s, from) ==
    CHOOSE e \in (from - 1)..Len(s) :
        /\ \A j \in from..e : IsSpace(s[j])
        /\ e < Len(s) => ~IsSpace(s[e + 1])

\* Attempts() of a matcher that keeps the first alternative found in the text
\* and never tries a later one
AttemptsCommitted(alts, s, i) ==
    IF s[i] # "@" THEN {}
    ELSE UNION { UNION { { [pe |-> pe, alt |-> k, ve |-> ve] :
                             ve \in {e \in VersionEnds(s, pe + Len(alts[k]) + 1) :
                                        e < Len(s) /\ s[e + 1] = "@"} } :
                         k \in {a \in DOMAIN alts :
                                  /\ StartsAt(s, pe + 1, alts[a])
                                  /\ \A b \in 1..(a - 1) : ~StartsAt(s, pe + 1, alts[b])} } :
                 pe \in WordEnds(s, i + 1) }

\* every way the expression matches at position i: the end of the program,
\* the alternative taken, the end of the version
Attempts(alts, s, i) ==
    IF s[i] # "@" THEN {}
    ELSE UNION { UNION { { [pe |-> pe, alt |-> k, ve |-> ve] :
                             ve \in {e \in VersionEnds(s, pe + Len(alts[k]) + 1) :
                                        e < Len(s) /\ s[e + 1] = "@"} } :
                         k \in {a \in DOMAIN alts : StartsAt(s, pe + 1, alts[a])} } :
                 pe \in WordEnds(s, i + 1) }

\* the order in which the backtracking matcher tries them: the longest
\* program first, the alternatives from left to right, the longest version first
TriedBefore(a, b) ==
    \/ a.pe > b.pe
    \/ a.pe = b.pe /\ a.alt < b.alt
    \/ a.pe = b.pe /\ a.alt = b.alt /\ a.ve > b.ve

\* the match of the expression at position i, or NoMatch
MatchAt(alts, s, i) ==
    LET tries == Attempts(alts, s, i)
    IN  IF tries = {} THEN NoMatch
        ELSE LET t == CHOOSE a \in tries : \A b \in tries \ {a} : TriedBefore(a, b)
                 op == alts[t.alt]
             IN  [start |-> i,
                  end |-> SpaceEnd(s, t.ve + 2),
                  program |-> Slice(s, i + 1, t.pe),
                  operator |-> op,
                  version |-> Slice(s, t.pe + Len(op) + 1, t.ve)]

\* marker.search(line), scanning from position pos: the leftmost match
SearchFrom(alts, s, pos) ==
    LET starts == {i \in pos..Len(s) : Attempts(alts, s, i) # {}}
    IN  IF starts = {} THEN NoMatch
        ELSE MatchAt(alts, s, CHOOSE i \in starts : \A j \in starts : i <= j)

\* marker.search(line)
Search(alts, s) == SearchFrom(alts, s, 1)

RECURSIVE SubFrom(_, _, _)
\* marker.sub('', line) from position pos on: every non-overlapping match,
\* from left to right, is removed
SubFrom(alts, s, pos) ==
    LET m == SearchFrom(alts, s, pos)
    IN  IF m = NoMatch THEN Slice(s, pos, Len(s))
        ELSE Slice(s, pos, m.start - 1) \o SubFrom(alts, s, m.end + 1)

\* marker.sub('', line, count=1): only the first match is removed
SubFirst(alts, s) ==
    IF Search(alts, s) = NoMatch THEN s
    ELSE Slice(s, 1, Search(alts, s).start - 1) \o Slice(s, Search(alts, s).end + 1, Len(s))

\* marker.sub('', line)
Sub(alts, s) == SubFrom(alts, s, 1)

---------------------------------------------------------------------------
(* The line filter                                                         *)

\* Condition() with the operands exchanged
ConditionSwapped(c, vs, e, m, v) == Apply(OperatorAt(c, m.operator), v, get_version(vs, e, m.program))

\* the condition of compatible(): the operator of the marker applied to the
\* version of the program and the version v of the marker
Condition(c, vs, e, m, v) == Apply(OperatorAt(c, m.operator), get_version(vs, e, m.program), v)

\* what the loop of compatible() does with a matching line, given the
\* parsed version v of the marker and the result r of the condition
Outcome(alts, line, m, v, r) ==
    IF v.exc # NoError THEN [match |-> m, out |-> <<>>, exc |-> v.exc]
    ELSE IF r.exc.type = "TypeError"
        THEN [match |-> m, out |-> <<>>, exc |-> Raise("WafError", m.program)]
    ELSE IF IsTrue(r.value) THEN [match |-> m, out |-> <<Sub(alts, line)>>, exc |-> NoError]
    ELSE [match |-> m, out |-> <<>>, exc |-> NoError]

\* the body of the loop of compatible() for a line and its match m
Matched(c, alts, vs, e, line, m) ==
    IF m = NoMatch THEN [match |-> m, out |-> <<line>>, exc |-> NoError]
    ELSE Outcome(alts, line, m, version(m.version),
                 Condition(c, vs, e, m, version(m.version).value))

\* the body of the loop of compatible() for one line: the match, the lines
\* yielded and the exception raised
Step(c, alts, vs, e, line) == Matched(c, alts, vs, e, line, Search(alts, line))

\* the generator after the step h: ended by its exception, or continued by t
Then(h, t) ==
    IF h.exc # NoError THEN [steps |-> <<[match |-> h.match, out |-> h.out]>>, exc |-> h.exc]
    ELSE [steps |-> <<[match |-> h.match, out |-> h.out]>> \o t.steps, exc |-> t.exc]

RECURSIVE compatible(_, _, _, _, _)
\* the generator compatible(text), run until it is exhausted or raises: the
\* steps it got through and the exception that ended it
compatible(c, alts, vs, e, text) ==
    IF Len(text) = 0 THEN [steps |-> <<>>, exc |-> NoError]
    ELSE Then(Step(c, alts, vs, e, Head(text)), compatible(c, alts, vs, e, Tail(text)))

RECURSIVE Yielded(_)
\* the lines yielded over the steps, in order
Yielded(steps) == IF Len(steps) = 0 THEN <<>> ELSE Head(steps).out \o Yielded(Tail(steps))

\* the set programs of compatible()
Programs(steps) == {steps[i].match.program : i \in {j \in DOMAIN steps : steps[j].match # NoMatch}}

\* Written() of a run() that writes what was yielded before the exception
WrittenPartial(old, r) == Join(<<"\n">>, Yielded(r.steps))

\* the output file after run(): join consumes the generator before write is called
Written(old, r) == IF r.exc = NoError THEN Join(<<"\n">>, Yielded(r.steps)) ELSE old

Uid == "uid"
NoDeps == [k \in {} |-> {}]

\* Deps() of a compatible() that adds to the set stored by the run before
DepsMerged(old, r) ==
    IF r.exc # NoError THEN old
    ELSE [k \in {Uid} |-> Programs(r.steps) \cup (IF Uid \in DOMAIN old THEN old[Uid] ELSE {})]

\* raw_deps after the generator: the last statement of compatible() stores the set
Deps(old, r) == IF r.exc = NoError THEN [k \in {Uid} |-> Programs(r.steps)] ELSE old

---------------------------------------------------------------------------
(* The signature                                                           *)

\* the characters in the order of their code points
CodeOrder == DigitChars \o UpperChars \o <<"_">> \o LowerChars

\* s < t for two strings
RECURSIVE StrLess(_, _)
StrLess(s, t) ==
    IF Len(t) = 0 THEN FALSE
    ELSE IF Len(s) = 0 THEN TRUE
    ELSE IF Head(s) # Head(t) THEN IndexOf(CodeOrder, Head(s)) < IndexOf(CodeOrder, Head(t))
    ELSE StrLess(Tail(s), Tail(t))

RECURSIVE Sorted(_)
\* sorted(names)
Sorted(names) ==
    IF names = {} THEN <<>>
    ELSE LET least == CHOOSE n \in names : \A o \in names \ {n} : StrLess(n, o)
         IN  <<least>> \o Sorted(names \ {least})

\* '.'.join(map(str, v))
Dotted(v) == Join(<<".">>, [i \in DOMAIN v.items |-> StrOf(v.items[i])])

RECURSIVE Updates(_, _, _)
\* the data the loop of sig_vars() feeds to the hash, for the programs in order
Updates(vs, e, names) ==
    IF Len(names) = 0 THEN <<>>
    ELSE Head(names) \o Dotted(get_version(vs, e, Head(names))) \o Updates(vs, e, Tail(names))

\* ver_base.sig_vars
sig_vars(vs, e, deps) == Updates(vs, e, Sorted(IF Uid \in DOMAIN deps THEN deps[Uid] ELSE {}))

---------------------------------------------------------------------------
(* Inputs                                                                  *)

Classes == {"ver_base", "subver", "ver"}

\* the text of a marker
Marker(program, sym, ver) == <<"@">> \o program \o sym \o ver \o <<"@">>

\* the lines the input files are made of
Lines ==
    { <<"x">>,
      Marker(<<"p">>, <<"<">>, <<"2">>) \o <<"a">>,
      Marker(<<"p">>, <<">", "=">>, <<"2">>) \o <<" ", "b">>,
      Marker(<<"p">>, <<"=", "=", "?">>, <<"1">>),
      Marker(<<"q">>, <<"!", "=">>, <<"1">>),
      Marker(<<"q">>, <<">">>, <<"1">>) \o <<"e">>,
      Marker(<<"p">>, <<"<">>, <<"1", ".">>) \o <<"f">> }

\* the files of at most n lines
RECURSIVE FilesOf(_)
FilesOf(n) == IF n = 0 THEN {<<>>}
    ELSE FilesOf(n - 1) \cup {Append(f, l) : f \in {g \in FilesOf(n - 1) : Len(g) = n - 1}, l \in Lines}

Files == FilesOf(MaxLines)

\* the files a later revision of the input is drawn from
Revisions ==
    { <<>>,
      << Marker(<<"q">>, <<">">>, <<"1">>) \o <<"e">> >>,
      << <<"x">>, Marker(<<"p">>, <<"<">>, <<"1", ".">>) \o <<"f">> >> }

EmptyDict == [k \in {} |-> Tuple(<<>>)]

\* the dictionaries given as the argument "versions" of the task generator
VersionDicts ==
    { NoAttr,
      Dict([k \in {<<"p">>} |-> Tuple(<<1, 1>>)]),
      Dict([k \in {<<"P">>} |-> Tuple(<<2>>)]) }

\* the environments find_version() leaves
Envs ==
    { EmptyDict,
      [k \in {<<"P">> \o VERSION, <<"Q">> \o VERSION} |->
          IF k = <<"P">> \o VERSION THEN Tuple(<<1>>) ELSE Tuple(<<1, 2>>)] }

Pending == [type |-> "pending", items |-> <<>>]

---------------------------------------------------------------------------
(* The task                                                                *)

Init ==
    /\ cls \in {"ver", "subver"}
    /\ marker = MarkerOf(cls)
    /\ inputs \in Files
    /\ outputs = <<>>
    /\ versions \in VersionDicts
    /\ env \in Envs
    /\ raw_deps = NoDeps
    /\ hasrun = FALSE
    /\ scanned = <<>>
    /\ error = NoError
    /\ cache_sig = FALSE
    /\ digest = <<>>
    /\ args = <<>>
    /\ ret = Pending

\* ver_base.run, which the build calls once on a task that has not run
Run ==
    LET r == compatible(cls, marker, versions, env, inputs)
    IN  /\ ~hasrun
        /\ hasrun' = TRUE
        /\ scanned' = r.steps
        /\ error' = r.exc
        /\ outputs' = Written(outputs, r)
        /\ raw_deps' = Deps(raw_deps, r)
        /\ cache_sig' = IF r.exc = NoError THEN FALSE ELSE cache_sig
        /\ UNCHANGED <<cls, marker, inputs, versions, env, digest, args, ret>>

\* ver_base.sig_vars, called by the signature of the task, which caches it
SigVars ==
    /\ digest' = sig_vars(versions, env, raw_deps)
    /\ cache_sig' = TRUE
    /\ UNCHANGED <<cls, marker, inputs, outputs, versions, env, raw_deps, hasrun, scanned,
                   error, args, ret>>

\* the input file is replaced by a later revision; the task is created anew
Edit(f) ==
    /\ f # inputs
    /\ inputs' = f
    /\ hasrun' = FALSE
    /\ scanned' = <<>>
    /\ error' = NoError
    /\ cache_sig' = FALSE
    /\ UNCHANGED <<cls, marker, outputs, versions, env, raw_deps, digest, args, ret>>

Next ==
    \/ Run
    \/ SigVars
    \/ \E f \in Revisions : Edit(f)

Spec == Init /\ [][Next]_vars

---------------------------------------------------------------------------
(* Marker recognition on single lines, for every class and for the         *)
(* alternatives listed in the order of the dictionary or in the reverse    *)

Reverse(seq) == [i \in DOMAIN seq |-> seq[Len(seq) + 1 - i]]

MarkerPrefixes == {<<>>, <<"x">>}
MarkerPrograms == {<<"p">>, <<"1", "1">>}
WellFormed == {<<"1">>, <<"1", ".", "2">>}
Malformed == {<<"1", ".">>, <<"1", ".", ".", "2">>}

\* a second marker, further on the line
Second == Marker(<<"q">>, <<">">>, <<"1">>)

\* what follows the first marker, and what is left of it once every marker
\* and the white space after it are removed
Rests ==
    { [text |-> <<>>, residue |-> <<>>, markers |-> 0],
      [text |-> <<" ", " ", "y">>, residue |-> <<"y">>, markers |-> 0],
      [text |-> <<"@", "q">>, residue |-> <<"@", "q">>, markers |-> 0],
      [text |-> Second, residue |-> <<>>, markers |-> 1],
      [text |-> <<" ", "y">> \o Second \o <<" ", "z">>, residue |-> <<"y", "z">>, markers |-> 1] }

MarkerLines ==
    { pre \o Marker(prog, sym, ver) \o rest.text :
        pre \in MarkerPrefixes, prog \in MarkerPrograms, sym \in Range(MarkerOf("ver")),
        ver \in WellFormed \cup Malformed, rest \in Rests }

InitMarker ==
    /\ cls \in Classes
    /\ marker \in {MarkerOf(cls), Reverse(MarkerOf(cls))}
    /\ inputs \in {<<l>> : l \in MarkerLines}
    /\ outputs = <<>>
    /\ versions = Dict([k \in {<<"P">>, <<"1", "1">>} |-> Tuple(<<1>>)])
    /\ env = [k \in {<<"Q">> \o VERSION} |-> Tuple(<<2>>)]
    /\ raw_deps = NoDeps
    /\ hasrun = FALSE
    /\ scanned = <<>>
    /\ error = NoError
    /\ cache_sig = FALSE
    /\ digest = <<>>
    /\ args = <<>>
    /\ ret = Pending

NextMarker == Run

SpecMarker == InitMarker /\ [][NextMarker]_vars

---------------------------------------------------------------------------
(* Direct calls of get_version()                                           *)

ResolverValues == {Tuple(<<1>>), Tuple(<<2>>)}

\* every dictionary with keys among keys and values among values
DictsOver(keys, values) == UNION {[d -> values] : d \in SUBSET keys}

InitResolver ==
    /\ cls = "ver"
    /\ marker = MarkerOf(cls)
    /\ inputs = <<>>
    /\ outputs = <<>>
    /\ versions \in {NoAttr} \cup {Dict(d) : d \in DictsOver({<<"p">>, <<"P">>}, ResolverValues)}
    /\ env \in DictsOver({<<"P">> \o VERSION, <<"p">> \o VERSION}, {Tuple(<<3>>)})
    /\ raw_deps = NoDeps
    /\ hasrun = FALSE
    /\ scanned = <<>>
    /\ error = NoError
    /\ cache_sig = FALSE
    /\ digest = <<>>
    /\ args \in {<<prog>> : prog \in {<<"p">>, <<"P">>, <<"q">>}}
    /\ ret = Pending

\* self.get_version(program)
GetVersion ==
    /\ ret' = get_version(versions, env, args[1])
    /\ UNCHANGED <<cls, marker, inputs, outputs, versions, env, raw_deps, hasrun, scanned,
                   error, cache_sig, digest, args>>

NextResolver == GetVersion

SpecResolver == InitResolver /\ [][NextResolver]_vars

---------------------------------------------------------------------------
(* Direct calls of the operators                                           *)

\* the tuples of at most n components, each at most MaxComponent
RECURSIVE TuplesOf(_)
TuplesOf(n) == IF n = 0 THEN {<<>>}
    ELSE TuplesOf(n - 1) \cup
         {Append(t, x) : t \in {u \in TuplesOf(n - 1) : Len(u) = n - 1}, x \in 0..MaxComponent}

InitComparator ==
    /\ cls \in Classes
    /\ marker = MarkerOf(cls)
    /\ inputs = <<>>
    /\ outputs = <<>>
    /\ versions = NoAttr
    /\ env = EmptyDict
    /\ raw_deps = NoDeps
    /\ hasrun = FALSE
    /\ scanned = <<>>
    /\ error = NoError
    /\ cache_sig = FALSE
    /\ digest = <<>>
    /\ args \in {<<sym, a, b>> : sym \in Range(marker),
                                 a \in TuplesOf(MaxVersionLen), b \in TuplesOf(MaxVersionLen)}
    /\ ret = Pending

\* self.operators[symbol](a, b)
Compare ==
    LET r == Apply(OperatorAt(cls, args[1]), Tuple(args[2]), Tuple(args[3]))
    IN  /\ ret' = r.value
        /\ error' = r.exc
        /\ UNCHANGED <<cls, marker, inputs, outputs, versions, env, raw_deps, hasrun, scanned,
                       cache_sig, digest, args>>

NextComparator == Compare

SpecComparator == InitComparator /\ [][NextComparator]_vars

---------------------------------------------------------------------------
(* The signature under changing versions                                   *)

\* program names the marker expression admits: \w+ takes digits too
SigNames == {<<"1">>, <<"1", "1">>, <<"p">>}
SigValues == {Tuple(<<1>>), Tuple(<<1, 1>>), Tuple(<<11>>)}
SigDicts == {Dict(d) : d \in [SigNames -> SigValues]}

InitSig ==
    /\ cls = "ver"
    /\ marker = MarkerOf(cls)
    /\ inputs = <<>>
    /\ outputs = <<>>
    /\ versions \in SigDicts
    /\ env = EmptyDict
    /\ raw_deps \in {[k \in {Uid} |-> names] : names \in SUBSET SigNames}
    /\ hasrun = FALSE
    /\ scanned = <<>>
    /\ error = NoError
    /\ cache_sig = FALSE
    /\ digest = <<>>
    /\ args = <<>>
    /\ ret = Pending

\* another version of a program is installed and configured; the task is created anew
Configure(vs) ==
    /\ vs # versions
    /\ versions' = vs
    /\ cache_sig' = FALSE
    /\ UNCHANGED <<cls, marker, inputs, outputs, env, raw_deps, hasrun, scanned, error,
                   digest, args, ret>>

NextSig ==
    \/ SigVars
    \/ \E vs \in SigDicts : Configure(vs)

SpecSig == InitSig /\ [][NextSig]_vars

---------------------------------------------------------------------------
(* Reference definitions the claims are stated with                        *)

\* a is before b in the lexicographic order, a proper prefix before the longer tuple
RECURSIVE LexLess(_, _)
LexLess(a, b) ==
    IF Len(b) = 0 THEN FALSE
    ELSE IF Len(a) = 0 THEN TRUE
    ELSE Head(a) < Head(b) \/ (Head(a) = Head(b) /\ LexLess(Tail(a), Tail(b)))

\* the comparison named by the symbol base, on two tuples
Holds(base, a, b) ==
    IF base = <<"<">> THEN LexLess(a, b)
    ELSE IF base = <<"<", "=">> THEN LexLess(a, b) \/ a = b
    ELSE IF base = <<">">> THEN LexLess(b, a)
    ELSE IF base = <<">", "=">> THEN LexLess(b, a) \/ a = b
    ELSE IF base = <<"=", "=">> THEN a = b
    ELSE a # b

Shorter(a, b) == IF Len(a) < Len(b) THEN Len(a) ELSE Len(b)

\* whether the operator sym of class c compares fuzzily, and its symbol without "?"
IsFuzzy(c, sym) == c = "subver" \/ sym[Len(sym)] = "?"
Base(sym) == IF sym[Len(sym)] = "?" THEN Slice(sym, 1, Len(sym) - 1) ELSE sym

\* the comparison the operator sym of class c stands for: in fuzzy mode both
\* tuples are cut to the length of the shorter one first
Expected(c, sym, a, b) ==
    IF IsFuzzy(c, sym)
    THEN Holds(Base(sym), Slice(a, 1, Shorter(a, b)), Slice(b, 1, Shorter(a, b)))
    ELSE Holds(Base(sym), a, b)

\* the sources of a program's version in the order of their precedence, each
\* a sequence of no or one value
Sources(vs, e, program) ==
    << IF vs.has /\ program \in DOMAIN vs.dict THEN <<vs.dict[program]>> ELSE <<>>,
       IF vs.has /\ Upper(program) \in DOMAIN vs.dict THEN <<vs.dict[Upper(program)]>> ELSE <<>>,
       IF Upper(program) \o VERSION \in DOMAIN e THEN <<e[Upper(program) \o VERSION]>> ELSE <<>> >>

\* the values present, in the order of precedence
Present(vs, e, program) ==
    Sources(vs, e, program)[1] \o Sources(vs, e, program)[2] \o Sources(vs, e, program)[3]

\* whether line i of the input was scanned and held a marker
Consulted(i) == i \in DOMAIN scanned /\ scanned[i].match # NoMatch

\* whether the version text of a marker is digit groups separated by single dots
IsWellFormed(ver) == \A i \in DOMAIN Split(ver, ".") : Len(Split(ver, ".")[i]) > 0

---------------------------------------------------------------------------
(* The claims                                                              *)

\* the version the program of the marker of line i resolves to, and the
\* version of the marker
Resolves(i) == Len(Present(versions, env, scanned[i].match.program)) > 0
ResolvedVersion(i) == Present(versions, env, scanned[i].match.program)[1].items
MarkerVersion(i) == version(scanned[i].match.version).value.items

\* whether the comparison of the marker of line i holds, the resolved version
\* on the left and the version of the marker on the right
ComparisonHolds(i) == Expected(cls, scanned[i].match.operator, ResolvedVersion(i), MarkerVersion(i))

\* C1: after a successful run every line was scanned; a line whose marker's
\* program resolves to a version R is emitted exactly when OP(R, version of
\* the marker) holds and is dropped otherwise; a line without a marker is
\* emitted; the output is the emitted lines joined in the order of the input,
\* and when every program resolves their number is the number of input lines
\* less the number of lines whose comparison is false.
C1_KeptIffComparison ==
    (hasrun /\ error = NoError) =>
        /\ Len(scanned) = Len(inputs)
        /\ \A i \in DOMAIN scanned :
            /\ ~Consulted(i) => scanned[i].out = <<inputs[i]>>
            /\ (Consulted(i) /\ Resolves(i)) =>
                  Len(scanned[i].out) = IF ComparisonHolds(i) THEN 1 ELSE 0
        /\ outputs = Join(<<"\n">>, Yielded(scanned))
        /\ (\A i \in DOMAIN scanned : Consulted(i) => Resolves(i)) =>
              Len(Yielded(scanned)) =
                  Len(inputs) - Cardinality({i \in DOMAIN scanned : Consulted(i) /\ ~ComparisonHolds(i)})

\* a successful run of two lines with markers, the first kept and the second dropped
C1_Witness ==
    /\ hasrun /\ error = NoError /\ Len(inputs) = 2
    /\ Consulted(1) /\ Resolves(1) /\ ComparisonHolds(1) /\ Len(scanned[1].out) = 1
    /\ Consulted(2) /\ Resolves(2) /\ ~ComparisonHolds(2) /\ Len(scanned[2].out) = 0
    /\ Len(Yielded(scanned)) = 1

\* C2, as claimed: the emitted line is the original line without the one span
\* of the earliest match (the marker and the white space after it), every
\* other character kept, further markers on the line included.
C2_OnlyFirstSpanRemoved ==
    (hasrun /\ Consulted(1) /\ scanned[1].out # <<>>) =>
        scanned[1].out[1] = Slice(inputs[1], 1, scanned[1].match.start - 1)
                            \o Slice(inputs[1], scanned[1].match.end + 1, Len(inputs[1]))

\* C2, amended: the emitted line is the original line without any marker that
\* matches the expression, each removed together with the white space after
\* its closing @; every other character is kept, text that only looks like a
\* marker included.
C2_EveryMarkerRemoved ==
    hasrun =>
        \A pre \in MarkerPrefixes, prog \in MarkerPrograms, k \in DOMAIN marker,
           ver \in WellFormed, rest \in Rests :
            (/\ inputs[1] = pre \o Marker(prog, marker[k], ver) \o rest.text
             /\ scanned[1].out # <<>>)
            => scanned[1].out = <<pre \o rest.residue>>

\* a kept line with text before, between and after two markers
C2_Witness ==
    /\ hasrun
    /\ inputs[1] = <<"x">> \o Marker(<<"p">>, <<"<">>, <<"1", ".", "2">>)
                   \o <<" ", "y">> \o Second \o <<" ", "z">>
    /\ scanned[1].out = << <<"x", "y", "z">> >>

\* C3: a scanned marker whose program has no entry in the dictionary (under
\* its name or its upper-case name) nor in the environment ends the run with
\* the error that names the program, whatever its operator.
C3_MissingVersionRaises ==
    hasrun =>
        \A i \in DOMAIN scanned :
            (Consulted(i) /\ IsWellFormed(scanned[i].match.version) /\ ~Resolves(i)) =>
                /\ i = Len(scanned)
                /\ error = Raise("WafError", scanned[i].match.program)

\* C4: a step that ends with an exception raised leaves the output file as it was.
C4_NoOutputOnError == [][error' # NoError => outputs' = outputs]_vars

\* a run that failed at its second line after yielding the first, the output
\* file still holding the text of an earlier run
C4_Witness ==
    /\ hasrun /\ error # NoError
    /\ Len(scanned) = 2 /\ Len(Yielded(scanned)) = 1
    /\ outputs # <<>>
    /\ outputs # Join(<<"\n">>, Yielded(scanned))

\* C5: when one of the three sources holds a value, get_version returns the
\* first one present in the order: dictionary under the name, dictionary
\* under the upper-case name, environment under NAME_VERSION.
C5_FirstPresentSource ==
    (ret # Pending /\ Len(Present(versions, env, args[1])) > 0) =>
        ret = Present(versions, env, args[1])[1]

\* the name is not in the dictionary, its upper-case form and the
\* environment key are, with different values
C5_Witness ==
    /\ ret # Pending
    /\ Sources(versions, env, args[1])[1] = <<>>
    /\ Sources(versions, env, args[1])[2] # <<>>
    /\ Sources(versions, env, args[1])[3] # <<>>
    /\ Sources(versions, env, args[1])[2] # Sources(versions, env, args[1])[3]
    /\ ret = Sources(versions, env, args[1])[2][1]

\* C6: every operator applied to two version tuples raises nothing and
\* returns the lexicographic comparison, a proper prefix ordered before the
\* longer tuple, taken in fuzzy mode on the tuples cut to the shorter length.
C6_ComparatorAgrees ==
    ret # Pending =>
        /\ error = NoError
        /\ IsTrue(ret) <=> Expected(cls, args[1], args[2], args[3])

\* 1 ==? 1.0 is true
C6_Witness ==
    /\ ret # Pending
    /\ cls = "ver"
    /\ args = << <<"=", "=", "?">>, <<1>>, <<1, 0>> >>
    /\ IsTrue(ret)

\* whether line starts with a marker of the program name
RefersTo(line, name) ==
    \E k \in DOMAIN marker :
        /\ StartsAt(line, 1, <<"@">> \o name \o marker[k])
        /\ Len(line) > Len(name) + Len(marker[k]) + 1
        /\ IsDigit(line[Len(name) + Len(marker[k]) + 2])

\* C7: after a successful run the record of the task is the set of the
\* programs of the markers of the present input (here each at the start of
\* its line), whatever the record was before and whether kept or dropped.
C7_DepsAreConsultedPrograms ==
    (hasrun /\ error = NoError) =>
        /\ Uid \in DOMAIN raw_deps
        /\ raw_deps[Uid] = {name \in {<<"p">>, <<"q">>} :
                              \E i \in DOMAIN inputs : RefersTo(inputs[i], name)}

\* two programs recorded, the line of one of them dropped
C7_Witness ==
    /\ hasrun /\ error = NoError
    /\ Uid \in DOMAIN raw_deps
    /\ raw_deps[Uid] = {<<"p">>, <<"q">>}
    /\ \E i \in DOMAIN scanned : Consulted(i) /\ scanned[i].out = <<>>

\* C8: for the recorded programs, configurations whose resolved versions
\* differ for a recorded program feed different data to the hash.
C8_SignatureSeparates ==
    (cache_sig /\ Uid \in DOMAIN raw_deps) =>
        \A vs \in SigDicts :
            (\E name \in raw_deps[Uid] :
                get_version(vs, env, name) # get_version(versions, env, name))
            => sig_vars(vs, env, raw_deps) # digest

\* C9: a line that starts (after its prefix) with the marker text of a
\* program, an operator of the class and a version is matched with exactly
\* that operator, whatever the order of the alternatives.
C9_LongestOperator ==
    hasrun =>
        \A pre \in MarkerPrefixes, prog \in MarkerPrograms, k \in DOMAIN marker, ver \in WellFormed :
            StartsAt(inputs[1], 1, pre \o Marker(prog, marker[k], ver)) =>
                /\ scanned[1].match.start = Len(pre) + 1
                /\ scanned[1].match.program = prog
                /\ scanned[1].match.operator = marker[k]
                /\ scanned[1].match.version = ver

\* <=? is matched although < and <= are listed before it
C9_Witness ==
    /\ hasrun
    /\ marker = MarkerOf("ver")
    /\ StartsAt(inputs[1], 1, Marker(<<"p">>, <<"<", "=", "?">>, <<"1">>))
    /\ scanned[1].match.operator = <<"<", "=", "?">>

\* C10: a line whose only marker-shaped text has a version that ends in a dot
\* or holds two adjacent dots has no marker: it is emitted unchanged and
\* nothing is raised.
C10_MalformedIsNoMarker ==
    hasrun =>
        \A pre \in MarkerPrefixes, prog \in MarkerPrograms, k \in DOMAIN marker,
           ver \in Malformed, rest \in {r \in Rests : r.markers = 0} :
            inputs[1] = pre \o Marker(prog, marker[k], ver) \o rest.text =>
                /\ scanned[1].match = NoMatch
                /\ scanned[1].out = <<inputs[1]>>
                /\ error = NoError

====
